---- MODULE Spec2Model ----
(***************************************************************************)
(* Model of generate-server-list.py: the NBTWriter byte writer and         *)
(* create_servers_dat(), which drives it to emit one servers.dat document. *)
(*                                                                         *)
(* Data representation.  A byte string (bytearray, bytes) and a text       *)
(* (str, a sequence of code points) are both held as their run-length      *)
(* coding: the sequence of maximal runs <<x, k>>, "x repeated k times",    *)
(* k >= 1, no two neighbouring runs with the same x.  Every sequence has   *)
(* exactly one such coding, so equality of codings is equality of the      *)
(* sequences, and a 65536-byte string costs one run.  The 16-bit and       *)
(* 32-bit limits of struct.pack are kept at their real width.              *)
(***************************************************************************)
EXTENDS Integers, Sequences, FiniteSets, TLC

VARIABLES
    data,      \* NBTWriter.data of the writer object in use
    call,      \* the last writer method called: name, arguments, data before, exception
    returned,  \* the objects handed back by get_bytes(), oldest first
    pc,        \* position inside create_servers_dat(): the line about to run
    nops       \* writer methods called so far on a free-standing writer

vars == <<data, call, returned, pc, nops>>

-----------------------------------------------------------------------------
(* Run-length coded sequences *)

\* the coding of a ++ b
RCat(a, b) ==
    IF a = <<>> THEN b
    ELSE IF b = <<>> THEN a
    ELSE LET la == a[Len(a)]
             fb == b[1]
         IN  IF la[1] = fb[1]
             THEN SubSeq(a, 1, Len(a) - 1) \o << <<la[1], la[2] + fb[2]>> >> \o Tail(b)
             ELSE a \o b

\* the coding of a sequence written out element by element
RECURSIVE RL(_)
RL(s) == IF s = <<>> THEN <<>> ELSE RCat(<< <<Head(s), 1>> >>, RL(Tail(s)))

\* the coding of r repeated k times
RECURSIVE RTimes(_, _)
RTimes(r, k) ==
    IF k = 0 \/ r = <<>> THEN <<>>
    ELSE IF Len(r) = 1 THEN << <<r[1][1], r[1][2] * k>> >>
    ELSE RCat(r, RTimes(r, k - 1))

\* len() of the coded sequence
RECURSIVE RLen(_)
RLen(r) == IF r = <<>> THEN 0 ELSE r[1][2] + RLen(Tail(r))

\* the coded sequence written out (short sequences only)
RECURSIVE RFlat(_)
RFlat(r) ==
    IF r = <<>> THEN <<>>
    ELSE [i \in 1..r[1][2] |-> r[1][1]] \o RFlat(Tail(r))

-----------------------------------------------------------------------------
(* Python built-ins the writer calls *)

NoExc == "none"
StructError == "struct.error"
UnicodeEncodeError == "UnicodeEncodeError"

U16Max == 65535
I16Min == -32768
I16Max == 32767

\* UTF-8 of one code point
Utf8Char(c) ==
    IF c < 128 THEN <<c>>
    ELSE IF c < 2048 THEN <<192 + (c \div 64), 128 + (c % 64)>>
    ELSE IF c < 65536
         THEN <<224 + (c \div 4096), 128 + ((c \div 64) % 64), 128 + (c % 64)>>
    ELSE <<240 + (c \div 262144), 128 + ((c \div 4096) % 64),
           128 + ((c \div 64) % 64), 128 + (c % 64)>>

IsSurrogate(c) == c >= 55296 /\ c <= 57343

RECURSIVE EncodeRuns(_)
EncodeRuns(t) ==
    IF t = <<>> THEN <<>>
    ELSE RCat(RTimes(RL(Utf8Char(t[1][1])), t[1][2]), EncodeRuns(Tail(t)))

\* value.encode('utf-8'): strict, a lone surrogate raises
str_encode(value) ==
    IF \E i \in 1..Len(value) : IsSurrogate(value[i][1])
    THEN [exc |-> UnicodeEncodeError, bytes |-> <<>>]
    ELSE [exc |-> NoExc, bytes |-> EncodeRuns(value)]

\* faulty variant of struct_pack_H: little-endian
struct_pack_H_le(n) ==
    IF n < 0 \/ n > 65535
    THEN [exc |-> "struct.error", bytes |-> <<>>]
    ELSE [exc |-> "none", bytes |-> RL(<<n % 256, n \div 256>>)]

\* struct.pack('>H', n): unsigned 16-bit, big-endian
struct_pack_H(n) ==
    IF n < 0 \/ n > U16Max
    THEN [exc |-> StructError, bytes |-> <<>>]
    ELSE [exc |-> NoExc, bytes |-> RL(<<n \div 256, n % 256>>)]

\* struct.pack('>i', v): signed 32-bit, big-endian.  A Python int v is held as
\* [hi, lo] with v = hi * 65536 + lo and 0 <= lo <= 65535, so that values outside
\* the 32-bit range can be passed in.
struct_pack_i(v) ==
    IF v.hi < I16Min \/ v.hi > I16Max
    THEN [exc |-> StructError, bytes |-> <<>>]
    ELSE LET h == v.hi % 65536
         IN  [exc |-> NoExc,
              bytes |-> RL(<<h \div 256, h % 256, v.lo \div 256, v.lo % 256>>)]

\* struct.pack('b', v): signed 8-bit
struct_pack_b(v) ==
    IF v < -128 \/ v > 127
    THEN [exc |-> StructError, bytes |-> <<>>]
    ELSE [exc |-> NoExc, bytes |-> RL(<<v % 256>>)]

\* the Python int n as [hi, lo]
PyInt(n) == [hi |-> n \div 65536, lo |-> n % 65536]

-----------------------------------------------------------------------------
(* NBTWriter.  Each method maps the buffer before the call to the buffer    *)
(* after it and the exception that left the method, if any.                 *)

\* faulty variant of __init__: the buffer is a class attribute, shared by all writers
NBTWriter_init_keep(self) == self

NBTWriter_init(self) == <<>>

\* faulty variant of write_string: the length field counts characters
write_string_charlen(d, value) ==
    LET encoded == str_encode(value)
    IN  IF encoded.exc # NoExc THEN [data |-> d, exc |-> encoded.exc]
        ELSE LET len == struct_pack_H(RLen(value))
             IN  IF len.exc # NoExc THEN [data |-> d, exc |-> len.exc]
                 ELSE [data |-> RCat(RCat(d, len.bytes), encoded.bytes), exc |-> NoExc]

write_string(d, value) ==
    LET encoded == str_encode(value)
    IN  IF encoded.exc # NoExc THEN [data |-> d, exc |-> encoded.exc]
        ELSE LET len == struct_pack_H(RLen(encoded.bytes))
             IN  IF len.exc # NoExc THEN [data |-> d, exc |-> len.exc]
                 ELSE [data |-> RCat(RCat(d, len.bytes), encoded.bytes), exc |-> NoExc]

\* faulty variant of write_byte: assigns the buffer instead of appending to it
write_byte_assign(d, value) ==
    [data |-> RL(<<value % 256>>), exc |-> NoExc]

write_byte(d, value) ==
    [data |-> RCat(d, RL(<<value % 256>>)), exc |-> NoExc]

\* faulty variant of write_int: little-endian
write_int_le(d, value) ==
    LET packed == struct_pack_i(value)
    IN  IF packed.exc # NoExc THEN [data |-> d, exc |-> packed.exc]
        ELSE LET b == RFlat(packed.bytes)
             IN  [data |-> RCat(d, RL(<<b[4], b[3], b[2], b[1]>>)), exc |-> NoExc]

write_int(d, value) ==
    LET packed == struct_pack_i(value)
    IN  IF packed.exc # NoExc THEN [data |-> d, exc |-> packed.exc]
        ELSE [data |-> RCat(d, packed.bytes), exc |-> NoExc]

\* faulty variant of write_tag_byte: the name is left out
write_tag_byte_noname(d, name, value) ==
    LET s1 == write_byte(d, 1)
        packed == struct_pack_b(value)
    IN  IF packed.exc # NoExc THEN [data |-> s1.data, exc |-> packed.exc]
        ELSE [data |-> RCat(s1.data, packed.bytes), exc |-> NoExc]

write_tag_byte(d, name, value) ==
    LET s1 == write_byte(d, 1)
        s2 == write_string(s1.data, name)
    IN  IF s2.exc # NoExc THEN s2
        ELSE LET packed == struct_pack_b(value)
             IN  IF packed.exc # NoExc THEN [data |-> s2.data, exc |-> packed.exc]
                 ELSE [data |-> RCat(s2.data, packed.bytes), exc |-> NoExc]

\* faulty variant of write_tag_string: payload before name
write_tag_string_swapped(d, name, value) ==
    LET s1 == write_byte(d, 8)
        s2 == write_string(s1.data, value)
    IN  IF s2.exc # NoExc THEN s2
        ELSE write_string(s2.data, name)

write_tag_string(d, name, value) ==
    LET s1 == write_byte(d, 8)
        s2 == write_string(s1.data, name)
    IN  IF s2.exc # NoExc THEN s2
        ELSE write_string(s2.data, value)

\* faulty variant of write_tag_end: writes nothing
write_tag_end_none(d) == [data |-> d, exc |-> NoExc]

write_tag_end(d) == write_byte(d, 0)

\* bytes(self.data): a new immutable object holding the buffer's content now
get_bytes(d) == [obj |-> "bytes", content |-> d]

\* what a returned object reads as in the current state
Content(r) == IF r.obj = "bytes" THEN r.content ELSE data

-----------------------------------------------------------------------------
(* Arguments the writer methods are exercised with *)

MaxOps == 2

Ascii_ip == RL(<<105, 112>>)
Text_cafe == RL(<<99, 97, 102, 233>>)                 \* "café"
Text_wide == RL(<<8364, 127806>>)                     \* U+20AC, U+1F33E
Text_surrogate == RL(<<97, 55296>>)                   \* "a" + lone surrogate
Text_fits == << <<233, 1>>, <<97, 65533>> >>          \* 65534 characters, 65535 bytes
Text_over == << <<233, 1>>, <<97, 65534>> >>          \* 65535 characters, 65536 bytes

Texts == {<<>>, Text_cafe, Text_wide, Text_surrogate, Text_fits, Text_over}
Names == {Ascii_ip, RL(<<233>>), Text_over}
ByteArgs == {10, -1, 300}
TagByteValues == {-129, -128, -1, 127, 128}
IntArgs == {PyInt(1), PyInt(-2), PyInt(2147483647),
            [hi |-> I16Min, lo |-> 0], [hi |-> I16Max + 1, lo |-> 0],
            [hi |-> I16Min - 1, lo |-> 65535]}

NoCall == [op |-> "none", name |-> <<>>, value |-> <<>>, pre |-> <<>>, exc |-> NoExc]

Init ==
    /\ data = <<>>
    /\ call = NoCall
    /\ returned = <<>>
    /\ pc = "idle"
    /\ nops = 0

\* one method call on the free-standing writer, with result r
Method(op, name, value, r) ==
    /\ nops < MaxOps
    /\ nops' = nops + 1
    /\ data' = r.data
    /\ call' = [op |-> op, name |-> name, value |-> value, pre |-> data, exc |-> r.exc]
    /\ UNCHANGED <<returned, pc>>

WriteString == \E s \in Texts : Method("write_string", <<>>, s, write_string(data, s))

WriteByte == \E b \in ByteArgs : Method("write_byte", <<>>, b, write_byte(data, b))

WriteInt == \E v \in IntArgs : Method("write_int", <<>>, v, write_int(data, v))

WriteTagByte ==
    \E n \in Names, b \in TagByteValues :
        Method("write_tag_byte", n, b, write_tag_byte(data, n, b))

WriteTagString ==
    \E n \in Names, s \in Texts :
        Method("write_tag_string", n, s, write_tag_string(data, n, s))

WriteTagEnd == Method("write_tag_end", <<>>, <<>>, write_tag_end(data))

GetBytes ==
    /\ nops < MaxOps
    /\ nops' = nops + 1
    /\ returned' = Append(returned, get_bytes(data))
    /\ call' = [op |-> "get_bytes", name |-> <<>>, value |-> <<>>, pre |-> data, exc |-> NoExc]
    /\ UNCHANGED <<data, pc>>

NextWriter ==
    \/ WriteString
    \/ WriteByte
    \/ WriteInt
    \/ WriteTagByte
    \/ WriteTagString
    \/ WriteTagEnd
    \/ GetBytes

SpecWriter == Init /\ [][NextWriter]_vars

-----------------------------------------------------------------------------
(* create_servers_dat(), one statement per step.  The caller invokes it     *)
(* MaxCalls times and keeps every result.                                   *)

MaxCalls == 8

Str_empty == <<>>
Str_servers == RL(<<115, 101, 114, 118, 101, 114, 115>>)
Str_ip == RL(<<105, 112>>)
Str_address == RL(<<108, 111, 99, 97, 108, 104, 111, 115, 116, 58, 50, 53, 53, 54, 53>>)
Str_name == RL(<<110, 97, 109, 101>>)
Str_title == RL(<<70, 97, 114, 109, 67, 114, 97, 102, 116, 32, 68, 101, 118, 32,
                  83, 101, 114, 118, 101, 114>>)
Str_hideAddress == RL(<<104, 105, 100, 101, 65, 100, 100, 114, 101, 115, 115>>)

\* a statement at `here` that calls a writer method with result r; an exception
\* leaves create_servers_dat()
Stmt(here, next, op, name, value, r) ==
    /\ pc = here
    /\ data' = r.data
    /\ call' = [op |-> op, name |-> name, value |-> value, pre |-> data, exc |-> r.exc]
    /\ pc' = IF r.exc = NoExc THEN next ELSE "raised"
    /\ UNCHANGED <<returned, nops>>

Call ==
    /\ pc = "idle"
    /\ Len(returned) < MaxCalls
    /\ pc' = "L52"
    /\ UNCHANGED <<data, call, returned, nops>>

L52 ==
    /\ pc = "L52"
    /\ data' = NBTWriter_init(data)
    /\ call' = [op |-> "__init__", name |-> <<>>, value |-> <<>>, pre |-> data, exc |-> NoExc]
    /\ pc' = "L55"
    /\ UNCHANGED <<returned, nops>>

L55 == Stmt("L55", "L56", "write_byte", <<>>, 10, write_byte(data, 10))
L56 == Stmt("L56", "L59", "write_string", <<>>, Str_empty, write_string(data, Str_empty))
L59 == Stmt("L59", "L60", "write_byte", <<>>, 9, write_byte(data, 9))
L60 == Stmt("L60", "L61", "write_string", <<>>, Str_servers, write_string(data, Str_servers))
L61 == Stmt("L61", "L62", "write_byte", <<>>, 10, write_byte(data, 10))
L62 == Stmt("L62", "L65", "write_int", <<>>, PyInt(1), write_int(data, PyInt(1)))
L65 == Stmt("L65", "L66", "write_tag_string", Str_ip, Str_address,
            write_tag_string(data, Str_ip, Str_address))
L66 == Stmt("L66", "L67", "write_tag_string", Str_name, Str_title,
            write_tag_string(data, Str_name, Str_title))
L67 == Stmt("L67", "L68", "write_tag_byte", Str_hideAddress, 0,
            write_tag_byte(data, Str_hideAddress, 0))
L68 == Stmt("L68", "L71", "write_tag_end", <<>>, <<>>, write_tag_end(data))
L71 == Stmt("L71", "L73", "write_tag_end", <<>>, <<>>, write_tag_end(data))

L73 ==
    /\ pc = "L73"
    /\ returned' = Append(returned, get_bytes(data))
    /\ call' = [op |-> "get_bytes", name |-> <<>>, value |-> <<>>, pre |-> data, exc |-> NoExc]
    /\ pc' = "idle"
    /\ UNCHANGED <<data, nops>>

create_servers_dat ==
    \/ L52 \/ L55 \/ L56 \/ L59 \/ L60 \/ L61 \/ L62
    \/ L65 \/ L66 \/ L67 \/ L68 \/ L71 \/ L73

NextServers == Call \/ create_servers_dat

SpecServers == Init /\ [][NextServers]_vars

-----------------------------------------------------------------------------
(* Vocabulary of the properties: UTF-8 as RFC 3629 defines it, read back    *)
(* from the bytes, and prefixes of coded sequences.                         *)

\* the first k elements of r, and r without them
RECURSIVE RTake(_, _)
RTake(r, k) ==
    IF k <= 0 \/ r = <<>> THEN <<>>
    ELSE IF r[1][2] >= k THEN << <<r[1][1], k>> >>
    ELSE RCat(<< r[1] >>, RTake(Tail(r), k - r[1][2]))

RECURSIVE RDrop(_, _)
RDrop(r, k) ==
    IF k <= 0 \/ r = <<>> THEN r
    ELSE IF r[1][2] > k THEN << <<r[1][1], r[1][2] - k>> >> \o Tail(r)
    ELSE RDrop(Tail(r), k - r[1][2])

\* a is an initial segment of b
RIsPrefix(a, b) ==
    \/ a = <<>>
    \/ /\ Len(a) <= Len(b)
       /\ \A i \in 1..(Len(a) - 1) : a[i] = b[i]
       /\ a[Len(a)][1] = b[Len(a)][1]
       /\ a[Len(a)][2] <= b[Len(a)][2]

\* the bytes that an operation added to the buffer
Appended == RDrop(data, RLen(call.pre))

\* number of bytes UTF-8 spends on code point c
Utf8Width(c) == IF c <= 127 THEN 1 ELSE IF c <= 2047 THEN 2 ELSE IF c <= 65535 THEN 3 ELSE 4

\* the text has a UTF-8 encoding: scalar values only
HasUtf8(t) == \A i \in 1..Len(t) : t[i][1] \in 0..1114111 /\ ~(t[i][1] \in 55296..57343)

RECURSIVE Utf8Len(_)
Utf8Len(t) == IF t = <<>> THEN 0 ELSE Utf8Width(t[1][1]) * t[1][2] + Utf8Len(Tail(t))

Fits(t) == HasUtf8(t) /\ Utf8Len(t) <= 65535

\* the text a byte string is the UTF-8 of; code point -1 marks malformed input
RECURSIVE Utf8Decode(_)
Utf8Decode(r) ==
    IF r = <<>> THEN <<>>
    ELSE LET b == r[1][1]
             w == IF b >= 240 THEN 4 ELSE IF b >= 224 THEN 3 ELSE IF b >= 192 THEN 2 ELSE 0
             bs == RFlat(RTake(r, w))
             x(i) == bs[i] - 128
         IN  IF b < 128 THEN RCat(<< r[1] >>, Utf8Decode(Tail(r)))
             ELSE IF w = 0 \/ Len(bs) < w \/ \E i \in 2..w : ~(bs[i] \in 128..191)
                  THEN << <<-1, 1>> >>
             ELSE LET c == IF w = 2 THEN (b - 192) * 64 + x(2)
                           ELSE IF w = 3 THEN (b - 224) * 4096 + x(2) * 64 + x(3)
                           ELSE (b - 240) * 262144 + x(2) * 4096 + x(3) * 64 + x(4)
                  IN  RCat(<< <<c, 1>> >>, Utf8Decode(RDrop(r, w)))

\* bytes = [n: u16 big-endian][the n bytes of the UTF-8 of text]
IsLengthPrefixed(bytes, text) ==
    LET n == Utf8Len(text)
    IN  /\ RLen(bytes) = 2 + n
        /\ RFlat(RTake(bytes, 2)) = <<n \div 256, n % 256>>
        /\ Utf8Decode(RDrop(bytes, 2)) = text

-----------------------------------------------------------------------------
(* Properties of the writer methods, under SpecWriter *)

\* C2: for every string whose UTF-8 encoding is at most 65535 bytes, write_string
\* succeeds and appends exactly 2 + n bytes, n the UTF-8 byte length of the string:
\* n as an unsigned 16-bit big-endian integer, then the UTF-8 bytes in order.
C2_WriteStringLengthPrefixed ==
    (call.op = "write_string" /\ Fits(call.value)) =>
        /\ call.exc = NoExc
        /\ RIsPrefix(call.pre, data)
        /\ IsLengthPrefixed(Appended, call.value)

\* "café", 4 characters, written after other bytes with length field 5
C2_Witness ==
    /\ call.op = "write_string"
    /\ call.value = Text_cafe
    /\ call.exc = NoExc
    /\ call.pre # <<>>
    /\ RFlat(RTake(Appended, 2)) = <<0, 5>>

\* C3: writing a string value whose UTF-8 encoding exceeds 65535 bytes, by
\* write_string or as the value of write_tag_string, fails and leaves the buffer
\* as it was before the operation.
C3_OversizedStringNoOutput ==
    (/\ call.op \in {"write_string", "write_tag_string"}
     /\ HasUtf8(call.value)
     /\ Utf8Len(call.value) > 65535) =>
        (call.exc # NoExc /\ data = call.pre)

\* C4: whenever write_tag_string, write_tag_byte or write_int raises, the buffer is
\* identical to the buffer before the operation.
C4_AllOrNothing ==
    (call.op \in {"write_tag_string", "write_tag_byte", "write_int"} /\ call.exc # NoExc) =>
        data = call.pre

C10_AppendOnly ==
    /\ RIsPrefix(call.pre, data)
    /\ RLen(data) >= RLen(call.pre)
    /\ call.op = "get_bytes" => data = call.pre
    /\ \A i \in DOMAIN returned : Content(returned[i]) = returned[i].content

\* a method that raised after get_bytes and still left bytes behind
C10_Witness ==
    /\ Len(returned) = 1
    /\ call.exc # NoExc
    /\ data # call.pre
    /\ Content(returned[1]) # data

-----------------------------------------------------------------------------
(* Vocabulary of the properties of create_servers_dat(): the canonical      *)
(* byte layout and a reader for the tag grammar (type id, name, payload;    *)
(* a compound ends at its End byte; a list is element type, count, then     *)
(* count bare payloads).  The reader knows the tag types 1, 8, 9 and 10.    *)

\* the canonical servers.dat content, uncompressed
Fixture ==
    <<10, 0, 0,
      9, 0, 7, 115, 101, 114, 118, 101, 114, 115,
      10,
      0, 0, 0, 1,
      8, 0, 2, 105, 112, 0, 15,
          108, 111, 99, 97, 108, 104, 111, 115, 116, 58, 50, 53, 53, 54, 53,
      8, 0, 4, 110, 97, 109, 101, 0, 20,
          70, 97, 114, 109, 67, 114, 97, 102, 116, 32, 68, 101, 118, 32,
          83, 101, 114, 118, 101, 114,
      1, 0, 11, 104, 105, 100, 101, 65, 100, 100, 114, 101, 115, 115, 0,
      0,
      0>>

Fail == [ok |-> FALSE, tree |-> <<>>, next |-> 0]

I32At(b, i) ==
    (IF b[i] >= 128 THEN b[i] - 256 ELSE b[i]) * 16777216
        + b[i + 1] * 65536 + b[i + 2] * 256 + b[i + 3]

DecString(b, i) ==
    IF i + 1 > Len(b) THEN Fail
    ELSE LET n == b[i] * 256 + b[i + 1]
         IN  IF i + 1 + n > Len(b) THEN Fail
             ELSE [ok |-> TRUE,
                   tree |-> Utf8Decode(RL(SubSeq(b, i + 2, i + 1 + n))),
                   next |-> i + 2 + n]

RECURSIVE DecPayload(_, _, _), DecItems(_, _, _, _), DecMembers(_, _)

DecPayload(b, t, i) ==
    IF t = 1 THEN
        IF i > Len(b) THEN Fail
        ELSE [ok |-> TRUE,
              tree |-> [tag |-> 1, val |-> IF b[i] >= 128 THEN b[i] - 256 ELSE b[i]],
              next |-> i + 1]
    ELSE IF t = 8 THEN
        LET s == DecString(b, i)
        IN  IF ~s.ok THEN Fail
            ELSE [ok |-> TRUE, tree |-> [tag |-> 8, val |-> s.tree], next |-> s.next]
    ELSE IF t = 9 THEN
        IF i + 4 > Len(b) THEN Fail
        ELSE LET items == DecItems(b, b[i], i + 5, I32At(b, i + 1))
             IN  IF ~items.ok THEN Fail
                 ELSE [ok |-> TRUE,
                       tree |-> [tag |-> 9, elem |-> b[i], count |-> I32At(b, i + 1),
                                 items |-> items.tree],
                       next |-> items.next]
    ELSE IF t = 10 THEN
        LET body == DecMembers(b, i)
        IN  IF ~body.ok THEN Fail
            ELSE [ok |-> TRUE, tree |-> [tag |-> 10, members |-> body.tree],
                  next |-> body.next]
    ELSE Fail

DecItems(b, t, i, n) ==
    IF n <= 0 THEN [ok |-> TRUE, tree |-> <<>>, next |-> i]
    ELSE LET h == DecPayload(b, t, i)
         IN  IF ~h.ok THEN Fail
             ELSE LET r == DecItems(b, t, h.next, n - 1)
                  IN  IF ~r.ok THEN Fail
                      ELSE [ok |-> TRUE, tree |-> <<h.tree>> \o r.tree, next |-> r.next]

DecMembers(b, i) ==
    IF i > Len(b) THEN Fail
    ELSE IF b[i] = 0 THEN [ok |-> TRUE, tree |-> <<>>, next |-> i + 1]
    ELSE LET nm == DecString(b, i + 1)
         IN  IF ~nm.ok THEN Fail
             ELSE LET v == DecPayload(b, b[i], nm.next)
                  IN  IF ~v.ok THEN Fail
                      ELSE LET r == DecMembers(b, v.next)
                           IN  IF ~r.ok THEN Fail
                               ELSE [ok |-> TRUE,
                                     tree |-> <<[name |-> nm.tree, value |-> v.tree]>>
                                                  \o r.tree,
                                     next |-> r.next]

\* a whole document: a compound with the empty name, and nothing after it
DecDocument(b) ==
    IF Len(b) < 1 \/ b[1] # 10 THEN Fail
    ELSE LET nm == DecString(b, 2)
         IN  IF ~nm.ok THEN Fail
             ELSE IF nm.tree # <<>> THEN Fail
             ELSE LET body == DecPayload(b, 10, nm.next)
                  IN  IF body.ok /\ body.next = Len(b) + 1 THEN body ELSE Fail

\* the names and values of the canonical layout, as texts
Quoted(from, to) == Utf8Decode(RL(SubSeq(Fixture, from, to)))

ServerTree ==
    [tag |-> 10, members |-> <<
        [name |-> Quoted(22, 23), value |-> [tag |-> 8, val |-> Quoted(26, 40)]],
        [name |-> Quoted(44, 47), value |-> [tag |-> 8, val |-> Quoted(50, 69)]],
        [name |-> Quoted(73, 83), value |-> [tag |-> 1, val |-> 0]] >>]

DocumentTree ==
    [tag |-> 10, members |-> <<
        [name |-> Quoted(7, 13),
         value |-> [tag |-> 9, elem |-> 10, count |-> 1, items |-> <<ServerTree>>]] >>]

\* where the payload of the "servers" list starts: after 0A 00 00, 09 00 07 'servers'
ListAt == 3 + 3 + 7 + 1

-----------------------------------------------------------------------------
(* Properties of create_servers_dat(), under SpecServers *)

\* C1 as stated: create_servers_dat() returns the canonical sequence and that
\* sequence is 73 bytes long.
C1_Fixture73Bytes ==
    \A i \in DOMAIN returned :
        LET b == RFlat(Content(returned[i]))
        IN  b = Fixture /\ Len(b) = 73

\* C1, amended: create_servers_dat() returns exactly the canonical sequence, byte
\* for byte, with nothing before, between or after; the sequence is 86 bytes long.
C1_Fixture ==
    \A i \in DOMAIN returned :
        LET b == RFlat(Content(returned[i]))
        IN  b = Fixture /\ Len(b) = 86

\* the first call has returned
C1_Witness == Len(returned) = 1 /\ pc = "idle" /\ call.op = "get_bytes"

\* C5: every compound opened is closed by exactly one End byte and has no length
\* prefix.  write_tag_end runs exactly at the two closing statements, each time
\* appending the single byte 0; the first closes the list element (the list is
\* complete, the document is not), the second closes the root and is the last
\* byte of the output, which holds two compounds.
C5_CompoundTermination ==
    LET b == RFlat(data)
        lst == DecPayload(b, 9, ListAt)
        doc == DecDocument(b)
    IN  /\ call.op = "write_tag_end" <=> pc \in {"L71", "L73"}
        /\ call.op = "write_tag_end" =>
               (call.exc = NoExc /\ data = RCat(call.pre, << <<0, 1>> >>))
        /\ pc = "L68" => ~lst.ok
        /\ pc = "L71" => (lst.ok /\ lst.next = Len(b) + 1 /\ ~doc.ok)
        /\ pc = "L73" =>
               /\ doc.ok
               /\ b[Len(b)] = 0
               /\ Len(doc.tree.members) = 1
               /\ doc.tree.members[1].value.tag = 9
               /\ \A k \in DOMAIN doc.tree.members[1].value.items :
                      /\ doc.tree.members[1].value.items[k].tag = 10
                      /\ \A m \in DOMAIN doc.tree.members[1].value.items[k].members :
                             doc.tree.members[1].value.items[k].members[m].value.tag # 10
               /\ Len(doc.tree.members[1].value.items) = 1

\* both End bytes are written and the function is about to return
C5_Witness ==
    /\ pc = "L73"
    /\ call.op = "write_tag_end"
    /\ RFlat(RDrop(data, RLen(data) - 2)) = <<0, 0>>
    /\ DecDocument(RFlat(data)).ok

\* C6: any two calls of create_servers_dat(), however many came before, return
\* byte-identical output, and every call starts writing into an empty buffer.
C6_Deterministic ==
    /\ \A i, j \in DOMAIN returned : Content(returned[i]) = Content(returned[j])
    /\ pc = "L55" => data = <<>>

\* a third call starts after two have returned
C6_Witness == Len(returned) = 2 /\ pc = "L55" /\ RLen(Content(returned[1])) > 0

\* C7: the "servers" list follows the list grammar: after type id 9 and the name
\* come the element type 10 as one byte, the count 1 as a signed 32-bit
\* big-endian integer, and exactly that many compound bodies without type id or
\* name; only the End of the root follows them.
C7_ListGrammar ==
    \A i \in DOMAIN returned :
        LET b == RFlat(Content(returned[i]))
            lst == DecPayload(b, 9, ListAt)
        IN  /\ Len(b) >= ListAt + 4
            /\ SubSeq(b, 4, ListAt - 1) = <<9, 0, 7>> \o RFlat(EncodeRuns(Quoted(7, 13)))
            /\ b[ListAt] = 10
            /\ SubSeq(b, ListAt + 1, ListAt + 4) = <<0, 0, 0, 1>>
            /\ lst.ok
            /\ lst.tree.count = 1
            /\ Len(lst.tree.items) = lst.tree.count
            /\ \A k \in DOMAIN lst.tree.items :
                   lst.tree.items[k].tag = 10 /\ Len(lst.tree.items[k].members) = 3
            /\ lst.next = Len(b)
            /\ b[lst.next] = 0

\* a returned document whose list holds one element
C7_Witness ==
    /\ Len(returned) >= 1
    /\ LET b == RFlat(Content(returned[1]))
       IN  DecPayload(b, 9, ListAt).ok /\ Len(DecPayload(b, 9, ListAt).tree.items) = 1

\* C8: reading the returned bytes with the tag grammar consumes every byte and
\* yields the tree Compound "" [ List "servers" of Compound [ Compound [
\* String ip, String name, Byte hideAddress = 0 ] ] ], in that order.
C8_RoundTrip ==
    \A i \in DOMAIN returned :
        LET doc == DecDocument(RFlat(Content(returned[i])))
        IN  /\ doc.ok
            /\ doc.next = RLen(Content(returned[i])) + 1
            /\ doc.tree = DocumentTree

\* a returned document that reads back as a tree with the three server members
C8_Witness ==
    /\ Len(returned) >= 1
    /\ LET doc == DecDocument(RFlat(Content(returned[Len(returned)])))
       IN  doc.ok /\ Len(doc.tree.members[1].value.items[1].members) = 3

====
